---- MODULE Spec2Model ----
(***************************************************************************)
(* Train Traffic Control System: the optimization engine                   *)
(* (src/src/optimization.py), the FastAPI handlers that call it            *)
(* (src/src/api.py) and the server start-up (src/src/main.py).             *)
(*                                                                         *)
(* The data layer (src/src/data/collector.py): DataCollector and           *)
(* DataPreprocessor.process_maintenance_impacts.                           *)
(*                                                                         *)
(* Four specifications share the variables:                               *)
(*   Spec             the API server: clients, server processes, handlers; *)
(*   SpecDetect       direct calls of OptimizationEngine.detect_conflicts  *)
(*                    on every bounded list of movements;                  *)
(*   SpecCollector    coroutines of one DataCollector run by an event loop;*)
(*   SpecMaintenance  calls of process_maintenance_impacts as time passes. *)
(***************************************************************************)
EXTENDS Integers, Sequences, FiniteSets, TLC

VARIABLES
    movements,   \* SpecDetect: the list passed to detect_conflicts
    conflicts,   \* SpecDetect: the list it returned, or NotRun
    conn,        \* Spec: per client, its request and the response it got
    proc,        \* Spec: per server process, the client whose handler runs (0: none)
    solverVars,  \* per server process: IntVars registered in optimizer.solver
    collector,   \* SpecCollector: the collections of one DataCollector
    tasks,       \* SpecCollector: the coroutines created on it, in creation order
    completed,   \* SpecCollector: the coroutines that have returned, in completion order
    clock,       \* the value datetime.now() returns
    blockList,   \* SpecMaintenance: the list of maintenance blocks passed in
    impacts      \* SpecMaintenance: the last call and what it returned (at most one)

engineVars == <<movements, conflicts, conn, proc, solverVars>>
dataVars == <<collector, tasks, completed, clock, blockList, impacts>>
vars == <<engineVars, dataVars>>

(***************************************************************************)
(* Bounds of the model.                                                    *)
(***************************************************************************)
\* Times are multiples of a third of the safety buffer, 0 .. MaxTick ticks.
MaxTick == 5
\* Longest list of movements passed to detect_conflicts.
MaxMovements == 3
\* Number of clients that may have a request outstanding at the same time.
NumClients == 2
\* Coroutines created on the DataCollector.
MaxCalls == 3
\* datetime.now() runs over 0 .. MaxClock; maintenance blocks start and end there.
MaxClock == 1
\* Longest list of maintenance blocks passed to process_maintenance_impacts.
MaxBlocks == 2

(***************************************************************************)
(* Program constants.                                                      *)
(***************************************************************************)
\* config.py: Settings.SAFETY_BUFFER, seconds.
SAFETY_BUFFER == 300
\* main.py: uvicorn.run(..., reload=True, workers=4).
reload == TRUE
workers == 4

\* Python's None, the value of a function whose body is `pass`.
NoneVal == "None"
\* Python truthiness of the values the model uses (None and False are falsy).
Truthy(v) == v \notin {NoneVal, FALSE}

Tick == SAFETY_BUFFER \div 3
Times == {k * Tick : k \in 0..MaxTick}

(***************************************************************************)
(* models.py: Train, Section, TrainMovement.  pydantic checks the types of *)
(* the fields only: no field has a validator, so a speed of 0, a capacity  *)
(* of 0 or entry_time >= exit_time construct without error.                *)
(***************************************************************************)
Train(id, prio, pos, dest, speed, len) ==
    [train_id |-> id, priority |-> prio, current_position |-> pos,
     destination |-> dest, speed |-> speed, length |-> len]

Section(id, from, to, len, vmax, cap) ==
    [section_id |-> id, start_point |-> from, end_point |-> to,
     length |-> len, max_speed |-> vmax, capacity |-> cap]

TrainMovement(train, section, entry, exit) ==
    [train |-> train, section |-> section, entry_time |-> entry, exit_time |-> exit]

\* The trains and sections the inputs are made of.
TR001 == Train("TR001", 2, "A", "B", 120, 200)
TR002 == Train("TR002", 4, "A", "C", 0, 200)
TR003 == Train("TR003", 3, "A", "C", 80, 150)
TR004 == Train("TR004", 1, "A", "B", 160, 100)
SEC001 == Section("SEC001", "A", "B", 50, 160, 1)
SEC002 == Section("SEC002", "B", "C", 30, 160, 2)
SEC003 == Section("SEC003", "C", "D", 20, 100, 0)

(***************************************************************************)
(* optimization.py: OptimizationEngine.                                    *)
(***************************************************************************)
\* _check_conflict(movement1, movement2): the body is comments and `pass`.
check_conflict(movement1, movement2) == NoneVal

\* detect_conflicts: for i, mov1 in enumerate(movements):
\*                       for mov2 in movements[i+1:]: ...
\* A reported pair (mov1, mov2) is a pair of references into the list; it is
\* modelled as the pair of their positions <<i, j>>.  The loops carry
\* [examined, conflicts]: the pairs _check_conflict has been called on, in
\* call order, and the list `conflicts`.
RECURSIVE detect_inner(_, _, _, _)
detect_inner(movs, i, j, acc) ==
    IF j > Len(movs) THEN acc
    ELSE detect_inner(movs, i, j + 1,
             [examined |-> Append(acc.examined, <<i, j>>),
              conflicts |->
                  IF Truthy(check_conflict(movs[i], movs[j]))
                  THEN Append(acc.conflicts, <<i, j>>) ELSE acc.conflicts])

\* The outer loop with the slice written movements[i:]: mov1 is paired with
\* itself first.
RECURSIVE detect_outer_self(_, _, _)
detect_outer_self(movs, i, acc) ==
    IF i > Len(movs) THEN acc
    ELSE detect_outer_self(movs, i + 1, detect_inner(movs, i, i, acc))

RECURSIVE detect_outer(_, _, _)
detect_outer(movs, i, acc) ==
    IF i > Len(movs) THEN acc
    ELSE detect_outer(movs, i + 1, detect_inner(movs, i, i + 1, acc))

detect_trace(movs) == detect_outer(movs, 1, [examined |-> <<>>, conflicts |-> <<>>])

detect_conflicts(movs) == detect_trace(movs).conflicts

\* A call that sorts its argument in place by entry_time before the loops.
detect_conflicts_call_sorting(nvars, movs) ==
    LET sorted == SortSeq(movs, LAMBDA a, b : a.entry_time < b.entry_time)
    IN  [report |-> detect_conflicts(sorted), movements |-> sorted, nvars |-> nvars]

\* The whole effect of engine.detect_conflicts(movements) on an engine whose
\* solver holds nvars IntVars: the list returned, the caller's list after the
\* call and the engine after the call.  The method assigns to its local
\* `conflicts` only.
detect_conflicts_call(nvars, movs) ==
    [report |-> detect_conflicts(movs), movements |-> movs, nvars |-> nvars]

(***************************************************************************)
(* optimize_schedule and the helpers it calls.  An outcome of a call is    *)
(* [kind, value, error]: kind "return" with the value returned, or kind    *)
(* "raise" with the class of the exception.                                *)
(***************************************************************************)
NoError == "NoError"
Return(v) == [kind |-> "return", value |-> v, error |-> NoError]
Raise(e) == [kind |-> "raise", value |-> NoneVal, error |-> e]

\* _create_time_matrix, _create_constraints: `pass`.
create_time_matrix(trains, sections) == NoneVal
create_constraints(trains, sections) == NoneVal

\* Lines 63-68: for train in trains: for section in sections:
\*     variables[...] = self.solver.IntVar(0, time_matrix.shape[0], name)
\* The arguments of IntVar are evaluated before the call: with time_matrix
\* None the first iteration raises AttributeError and no IntVar is created.
\* With no iteration (no train or no section) the loop creates nothing.
\* [error, created]: the exception raised, the number of IntVars created.
define_variables(trains, sections, time_matrix) ==
    IF Len(trains) = 0 \/ Len(sections) = 0
    THEN [error |-> NoError, created |-> 0]
    ELSE IF time_matrix = NoneVal
         THEN [error |-> "AttributeError", created |-> 0]
         ELSE [error |-> NoError, created |-> Len(trains) * Len(sections)]

\* _add_safety_constraints, _add_capacity_constraints,
\* _add_sequence_constraints: `pass`, nothing is added to the solver.
add_constraints(created) == created

\* Lines 76-78: self.solver.Minimize(sum(variables[k] for k in variables)).
\* pywrapcp.Solver.Minimize(v, step) takes an IntVar and a step: called with
\* one argument it raises TypeError, whatever the argument is.
solver_minimize(created) == "TypeError"

\* _solve_optimization, _create_movement_schedule: `pass`.
solve_optimization(created, objective) == NoneVal
create_movement_schedule(solution, trains, sections) == NoneVal

\* optimize_schedule as it would be if the time matrix existed and the
\* schedule were read off every IntVar the shared solver holds, those of
\* earlier calls included.
optimize_schedule_leftover(nvars, trains, sections, current_movements) ==
    LET after == nvars + Len(trains) * Len(sections)
    IN  [outcome |-> Return(after), nvars |-> after]

\* optimize_schedule(trains, sections, current_movements) on an engine whose
\* solver holds nvars IntVars: [outcome, nvars], the outcome of the call and
\* the number of IntVars the solver holds after it.  current_movements is
\* never read.
optimize_schedule(nvars, trains, sections, current_movements) ==
    LET time_matrix == create_time_matrix(trains, sections)
        constraints == create_constraints(trains, sections)
        dv == define_variables(trains, sections, time_matrix)
        after == nvars + add_constraints(dv.created)
    IN  IF dv.error # NoError
        THEN [outcome |-> Raise(dv.error), nvars |-> after]
        ELSE LET objective == solver_minimize(dv.created)
             IN  IF objective = "TypeError"
                 THEN [outcome |-> Raise(objective), nvars |-> after]
                 ELSE [outcome |->
                          Return(create_movement_schedule(
                                     solve_optimization(dv.created, objective),
                                     trains, sections)),
                       nvars |-> after]

(***************************************************************************)
(* api.py: the module-level engine and the handlers.                       *)
(***************************************************************************)
\* main.py: uvicorn.run("src.main:app", reload=True, workers=4).  uvicorn
\* serves from one process when reload is on (the workers setting is then
\* ignored) and from `workers` processes otherwise.
ServerProcessesNoReload == workers
ServerProcesses == IF reload THEN 1 ELSE workers

Clients == 1..NumClients
Procs == 1..ServerProcesses

\* str(e) of the exceptions optimize_schedule raises.
ExcMessage(e) ==
    CASE e = "AttributeError" -> "'NoneType' object has no attribute 'shape'"
      [] e = "TypeError" -> "Minimize() missing 1 required positional argument: 'step'"
      [] OTHER -> e

\* The handler without its try / except: the framework answers an exception
\* that leaves the handler with a bare 500, "Internal Server Error".
HandlerResponseNoCatch(outcome) ==
    IF outcome.kind = "return"
    THEN [status |-> 200, body |-> outcome.value, detail |-> ""]
    ELSE [status |-> 500, body |-> NoneVal, detail |-> "Internal Server Error"]

\* try: return <engine result>
\* except Exception as e: raise HTTPException(status_code=500, detail=str(e))
HandlerResponse(outcome) ==
    IF outcome.kind = "return"
    THEN [status |-> 200, body |-> outcome.value, detail |-> ""]
    ELSE [status |-> 500, body |-> NoneVal, detail |-> ExcMessage(outcome.error)]

\* The bodies of the requests the clients send.
OptimizeRequest(trains, sections, current_movements) ==
    [kind |-> "optimize", trains |-> trains, sections |-> sections,
     movements |-> current_movements]

ConflictsRequest(movs) ==
    [kind |-> "conflicts", trains |-> <<>>, sections |-> <<>>, movements |-> movs]

TrainLists == {<<>>, <<TR001>>, <<TR001, TR002>>}
SectionLists == {<<SEC001>>, <<SEC001, SEC002>>, <<SEC002, SEC001>>, <<SEC003>>}
CurrentLists == {<<>>, <<TrainMovement(TR001, SEC001, 2 * Tick, 2 * Tick)>>}
ConflictsLists ==
    {<<>>, <<TrainMovement(TR001, SEC001, 0, 2 * Tick),
             TrainMovement(TR003, SEC001, Tick, 3 * Tick)>>}

\* Three trains that ask for overlapping windows on the capacity-1 section.
ScenarioBRequest ==
    OptimizeRequest(<<TR003, TR001, TR004>>, <<SEC001>>,
                    <<TrainMovement(TR003, SEC001, 0, 2 * Tick),
                      TrainMovement(TR001, SEC001, Tick, 3 * Tick),
                      TrainMovement(TR004, SEC001, Tick, 2 * Tick)>>)

Requests ==
    {OptimizeRequest(t, s, m) : t \in TrainLists, s \in SectionLists, m \in CurrentLists}
    \cup {ConflictsRequest(m) : m \in ConflictsLists}
    \cup {ScenarioBRequest}

\* The value of `conflicts` before detect_conflicts has been called.
NotRun == "NotRun"
NoRequest == [kind |-> "none", trains |-> <<>>, sections |-> <<>>, movements |-> <<>>]
NoOutcome == [kind |-> "none", value |-> NoneVal, error |-> NoError]
NoResponse == [status |-> 0, body |-> NoneVal, detail |-> ""]
IdleConn == [st |-> "idle", req |-> NoRequest, outcome |-> NoOutcome, resp |-> NoResponse]

(***************************************************************************)
(* src/src/data/schemas.py: the records the data layer builds and reads.   *)
(* Optional[float] is a sequence: <<>> for None, <<x>> for the value x.    *)
(***************************************************************************)
RealTimeData(timestamp, train_id, position, speed, direction, section_id, delay, status, next_signal, next_station) ==
    [timestamp |-> timestamp, train_id |-> train_id, position |-> position,
     speed |-> speed, direction |-> direction, section_id |-> section_id,
     delay |-> delay, status |-> status, next_signal |-> next_signal,
     next_station |-> next_station]

WeatherData(timestamp, section_id, condition, temperature, visibility, wind_speed, rainfall) ==
    [timestamp |-> timestamp, section_id |-> section_id, condition |-> condition,
     temperature |-> temperature, visibility |-> visibility,
     wind_speed |-> wind_speed, rainfall |-> rainfall]

MaintenanceBlock(block_id, section_id, start_time, end_time, type, status, speed_restriction, description) ==
    [block_id |-> block_id, section_id |-> section_id, start_time |-> start_time,
     end_time |-> end_time, type |-> type, status |-> status,
     speed_restriction |-> speed_restriction, description |-> description]

(***************************************************************************)
(* src/src/data/collector.py: DataCollector.                               *)
(***************************************************************************)
\* DataCollector.__init__: three empty dicts and four empty lists.
DataCollector ==
    [track_sections |-> <<>>, rolling_stock |-> <<>>, schedules |-> <<>>,
     real_time_data |-> <<>>, weather_data |-> <<>>,
     maintenance_blocks |-> <<>>, metrics |-> <<>>]

\* The same body putting the new record first in the list.
collect_real_time_data_insert_first(self, train_id, now) ==
    LET data == RealTimeData(now, train_id, [latitude |-> 0, longitude |-> 0],
                             0, 0, "", 0, "unknown", "", "")
    IN  [self |-> [self EXCEPT !.real_time_data = <<data>> \o @], data |-> data]

\* The body of the coroutine collect_real_time_data; it has no await, so the
\* event loop runs it in one step.  now is the value of datetime.now().
collect_real_time_data(self, train_id, now) ==
    LET data == RealTimeData(now, train_id, [latitude |-> 0, longitude |-> 0],
                             0, 0, "", 0, "unknown", "", "")
    IN  [self |-> [self EXCEPT !.real_time_data = Append(@, data)], data |-> data]

\* The body of the coroutine collect_weather_data.
collect_weather_data(self, section_id, now) ==
    LET data == WeatherData(now, section_id, "clear", 25, 10, 5, <<0>>)
    IN  [self |-> [self EXCEPT !.weather_data = Append(@, data)], data |-> data]

(***************************************************************************)
(* src/src/data/collector.py: DataPreprocessor.process_maintenance_impacts.*)
(***************************************************************************)
min(a, b) == IF a <= b THEN a ELSE b
max(a, b) == IF a >= b THEN a ELSE b

RECURSIVE sum(_)
sum(xs) == IF xs = <<>> THEN 0 ELSE Head(xs) + sum(Tail(xs))

\* The same body with the window open at both ends.
process_maintenance_impacts_exclusive(maintenance_blocks, section_id, current_time) ==
    LET IsActive(block) == /\ block.section_id = section_id
                           /\ block.start_time < current_time
                           /\ current_time < block.end_time
        active_blocks == SelectSeq(maintenance_blocks, IsActive)
        Restricted(block) == block.speed_restriction # <<>>
        restricted == SelectSeq(active_blocks, Restricted)
    IN  [active_blocks |-> Len(active_blocks),
         speed_restrictions |->
             [k \in 1..Len(restricted) |-> restricted[k].speed_restriction],
         affected_duration |->
             sum([k \in 1..Len(active_blocks) |->
                     min(active_blocks[k].end_time, current_time)
                     - max(active_blocks[k].start_time, current_time)])]

\* current_time is the value of datetime.now() read at the start of the call.
process_maintenance_impacts(maintenance_blocks, section_id, current_time) ==
    LET IsActive(block) == /\ block.section_id = section_id
                           /\ block.start_time <= current_time
                           /\ current_time <= block.end_time
        active_blocks == SelectSeq(maintenance_blocks, IsActive)
        Restricted(block) == block.speed_restriction # <<>>
        restricted == SelectSeq(active_blocks, Restricted)
    IN  [active_blocks |-> Len(active_blocks),
         speed_restrictions |->
             [k \in 1..Len(restricted) |-> restricted[k].speed_restriction],
         affected_duration |->
             sum([k \in 1..Len(active_blocks) |->
                     min(active_blocks[k].end_time, current_time)
                     - max(active_blocks[k].start_time, current_time)])]

\* No coroutine created, no call made, the clock at its start.
DataIdle ==
    /\ collector = DataCollector
    /\ tasks = <<>>
    /\ completed = <<>>
    /\ clock = 0
    /\ blockList = <<>>
    /\ impacts = <<>>

ServerIdle ==
    /\ conn = [c \in Clients |-> IdleConn]
    /\ proc = [p \in Procs |-> 0]
    /\ solverVars = [p \in Procs |-> 0]

Init ==
    /\ movements = <<>>
    /\ conflicts = NotRun
    /\ ServerIdle
    /\ DataIdle

\* A client sends a request; it waits in the server's socket backlog.
Send(c, r) ==
    /\ conn[c].st = "idle"
    /\ conn' = [conn EXCEPT ![c] = [IdleConn EXCEPT !.st = "sent", !.req = r]]
    /\ UNCHANGED <<movements, conflicts, proc, solverVars, dataVars>>

\* The event loop of process p, running no handler, starts the handler of a
\* waiting request.  The handlers are `async def` and call the engine without
\* awaiting: a process runs one handler at a time, to its end.
StartHandler(p, c) ==
    /\ proc[p] = 0
    /\ conn[c].st = "sent"
    /\ proc' = [proc EXCEPT ![p] = c]
    /\ conn' = [conn EXCEPT ![c].st = "handling"]
    /\ UNCHANGED <<movements, conflicts, solverVars, dataVars>>

\* POST /optimize/schedule: the handler calls optimizer.optimize_schedule and
\* answers.
FinishOptimize(p) ==
    /\ proc[p] # 0
    /\ conn[proc[p]].req.kind = "optimize"
    /\ LET c == proc[p]
           r == conn[c].req
           res == optimize_schedule(solverVars[p], r.trains, r.sections, r.movements)
       IN  /\ conn' = [conn EXCEPT ![c] = [st |-> "done", req |-> r,
                                           outcome |-> res.outcome,
                                           resp |-> HandlerResponse(res.outcome)]]
           /\ solverVars' = [solverVars EXCEPT ![p] = res.nvars]
    /\ proc' = [proc EXCEPT ![p] = 0]
    /\ UNCHANGED <<movements, conflicts, dataVars>>

\* GET /conflicts: the handler calls optimizer.detect_conflicts and answers.
FinishConflicts(p) ==
    /\ proc[p] # 0
    /\ conn[proc[p]].req.kind = "conflicts"
    /\ LET c == proc[p]
           r == conn[c].req
           out == Return(detect_conflicts(r.movements))
       IN  conn' = [conn EXCEPT ![c] = [st |-> "done", req |-> r, outcome |-> out,
                                        resp |-> HandlerResponse(out)]]
    /\ proc' = [proc EXCEPT ![p] = 0]
    /\ UNCHANGED <<movements, conflicts, solverVars, dataVars>>

\* The client has read the response and may send its next request.
Close(c) ==
    /\ conn[c].st = "done"
    /\ conn' = [conn EXCEPT ![c] = IdleConn]
    /\ UNCHANGED <<movements, conflicts, proc, solverVars, dataVars>>

Next ==
    \/ \E c \in Clients, r \in Requests : Send(c, r)
    \/ \E p \in Procs, c \in Clients : StartHandler(p, c)
    \/ \E p \in Procs : FinishOptimize(p)
    \/ \E p \in Procs : FinishConflicts(p)
    \/ \E c \in Clients : Close(c)

Spec == Init /\ [][Next]_vars

(***************************************************************************)
(* SpecDetect: one OptimizationEngine, detect_conflicts called directly on *)
(* a list of at most MaxMovements movements.  The movement at position k   *)
(* is made by the k-th train; each crosses SEC001 (capacity 1) or SEC002   *)
(* (capacity 2) in a window of one or two ticks.                           *)
(***************************************************************************)
DetectTrains == <<TR001, TR003, TR002>>
TrainAt(k) == DetectTrains[((k - 1) % Len(DetectTrains)) + 1]
DetectSections == {SEC001, SEC002}
Windows == {w \in Times \X Times : w[1] < w[2] /\ w[2] - w[1] <= 2 * Tick}
Slots == DetectSections \X Windows
SlotLists == UNION {[1..n -> Slots] : n \in 0..MaxMovements}
ToMovements(f) ==
    [k \in 1..Len(f) |-> TrainMovement(TrainAt(k), f[k][1], f[k][2][1], f[k][2][2])]
MovementLists == {ToMovements(f) : f \in SlotLists}

InitDetect ==
    /\ movements \in MovementLists
    /\ conflicts = NotRun
    /\ ServerIdle
    /\ DataIdle

\* conflicts = engine.detect_conflicts(movements), the first call.
DetectConflicts ==
    /\ conflicts = NotRun
    /\ LET call == detect_conflicts_call(solverVars[1], movements)
       IN  /\ conflicts' = call.report
           /\ movements' = call.movements
           /\ solverVars' = [solverVars EXCEPT ![1] = call.nvars]
    /\ UNCHANGED <<conn, proc, dataVars>>

\* The same call made again on the same list.
DetectAgain ==
    /\ conflicts # NotRun
    /\ LET call == detect_conflicts_call(solverVars[1], movements)
       IN  /\ conflicts' = call.report
           /\ movements' = call.movements
           /\ solverVars' = [solverVars EXCEPT ![1] = call.nvars]
    /\ UNCHANGED <<conn, proc, dataVars>>

\* engine.optimize_schedule(trains, sections, movements) on the same engine,
\* between two detect_conflicts calls; its outcome is dropped.
OptimizeBetween(trains, sections) ==
    /\ LET res == optimize_schedule(solverVars[1], trains, sections, movements)
       IN  solverVars' = [solverVars EXCEPT ![1] = res.nvars]
    /\ UNCHANGED <<movements, conflicts, conn, proc, dataVars>>

NextDetect ==
    \/ DetectConflicts
    \/ DetectAgain
    \/ \E t \in TrainLists, s \in SectionLists : OptimizeBetween(t, s)

SpecDetect == InitDetect /\ [][NextDetect]_vars

(***************************************************************************)
(* SpecCollector: one DataCollector and one event loop.  Calling an async  *)
(* method creates a coroutine; the loop runs the coroutines it holds in    *)
(* any order, each body to its end.                                        *)
(***************************************************************************)
TrainIds == {"TR001", "TR002"}
CollectorSectionIds == {"SEC001"}

EngineIdle ==
    /\ movements = <<>>
    /\ conflicts = NotRun
    /\ ServerIdle

InitCollector ==
    /\ EngineIdle
    /\ DataIdle

\* datetime.now() moves on.
TickClock ==
    /\ clock < MaxClock
    /\ clock' = clock + 1
    /\ UNCHANGED <<engineVars, collector, tasks, completed, blockList, impacts>>

\* collector.collect_real_time_data(train_id) or
\* collector.collect_weather_data(section_id) is called: a coroutine object,
\* none of its body run yet.
CreateTask(method, arg) ==
    /\ Len(tasks) < MaxCalls
    /\ tasks' = Append(tasks, [method |-> method, arg |-> arg, done |-> FALSE])
    /\ UNCHANGED <<engineVars, collector, completed, clock, blockList, impacts>>

\* The loop runs the body of the k-th coroutine, a collect_real_time_data.
RunRealTime(k) ==
    /\ k \in 1..Len(tasks)
    /\ ~tasks[k].done
    /\ tasks[k].method = "collect_real_time_data"
    /\ collector' = collect_real_time_data(collector, tasks[k].arg, clock).self
    /\ tasks' = [tasks EXCEPT ![k].done = TRUE]
    /\ completed' = Append(completed, [task |-> k, method |-> tasks[k].method,
                                       arg |-> tasks[k].arg, at |-> clock])
    /\ UNCHANGED <<engineVars, clock, blockList, impacts>>

\* The loop runs the body of the k-th coroutine, a collect_weather_data.
RunWeather(k) ==
    /\ k \in 1..Len(tasks)
    /\ ~tasks[k].done
    /\ tasks[k].method = "collect_weather_data"
    /\ collector' = collect_weather_data(collector, tasks[k].arg, clock).self
    /\ tasks' = [tasks EXCEPT ![k].done = TRUE]
    /\ completed' = Append(completed, [task |-> k, method |-> tasks[k].method,
                                       arg |-> tasks[k].arg, at |-> clock])
    /\ UNCHANGED <<engineVars, clock, blockList, impacts>>

NextCollector ==
    \/ TickClock
    \/ \E id \in TrainIds : CreateTask("collect_real_time_data", id)
    \/ \E id \in CollectorSectionIds : CreateTask("collect_weather_data", id)
    \/ \E k \in 1..MaxCalls : RunRealTime(k)
    \/ \E k \in 1..MaxCalls : RunWeather(k)

SpecCollector == InitCollector /\ [][NextCollector]_vars

(***************************************************************************)
(* SpecMaintenance: process_maintenance_impacts called on a list of at     *)
(* most MaxBlocks blocks while time passes.  A block lies on SEC001 (with  *)
(* a speed restriction) or SEC002 (without) and starts and ends anywhere   *)
(* in 0 .. MaxClock, its end before its start included: the schema does    *)
(* not order them.                                                         *)
(***************************************************************************)
MaintenanceSectionIds == {"SEC001", "SEC002"}
Blocks ==
    {MaintenanceBlock("MB", sid, s, e, "track", "scheduled",
                      IF sid = "SEC001" THEN <<50>> ELSE <<>>, "")
        : sid \in MaintenanceSectionIds, s \in 0..MaxClock, e \in 0..MaxClock}
BlockLists == UNION {[1..n -> Blocks] : n \in 0..MaxBlocks}

InitMaintenance ==
    /\ EngineIdle
    /\ collector = DataCollector
    /\ tasks = <<>>
    /\ completed = <<>>
    /\ clock = 0
    /\ blockList \in BlockLists
    /\ impacts = <<>>

\* DataPreprocessor.process_maintenance_impacts(blockList, section_id).
ProcessMaintenance(section_id) ==
    /\ impacts' = <<[section_id |-> section_id, current_time |-> clock,
                     result |-> process_maintenance_impacts(blockList, section_id, clock)]>>
    /\ UNCHANGED <<engineVars, collector, tasks, completed, clock, blockList>>

NextMaintenance ==
    \/ TickClock
    \/ \E sid \in MaintenanceSectionIds : ProcessMaintenance(sid)

SpecMaintenance == InitMaintenance /\ [][NextMaintenance]_vars

(***************************************************************************)
(* Vocabulary of the claims about detect_conflicts.                        *)
(***************************************************************************)
Range(seq) == {seq[k] : k \in 1..Len(seq)}
PairsOf(movs) == {pr \in (1..Len(movs)) \X (1..Len(movs)) : pr[1] < pr[2]}
SameSection(a, b) == a.section.section_id = b.section.section_id

\* Later entry_time minus earlier exit_time; negative when the intervals overlap.
Gap(a, b) ==
    IF a.entry_time <= b.entry_time
    THEN b.entry_time - a.exit_time
    ELSE a.entry_time - b.exit_time

\* The movements of movs that occupy section s at instant t.
ActiveAt(movs, s, t) ==
    {k \in 1..Len(movs) :
        /\ movs[k].section.section_id = s.section_id
        /\ movs[k].entry_time <= t
        /\ t < movs[k].exit_time}

Oversubscribed(movs, s) ==
    \E t \in Times : Cardinality(ActiveAt(movs, s, t)) > s.capacity

\* C2 (as claimed): after detect_conflicts, every pair of movements on the same
\* section whose gap is below the safety buffer (so their buffer-expanded
\* intervals overlap under every reading of the expansion) and whose section
\* cannot hold both (capacity < 2) is in the report, and no pair of movements
\* on different sections is.
C2_BufferConflictsReported ==
    conflicts # NotRun =>
        \A pr \in PairsOf(movements) :
            LET a == movements[pr[1]]
                b == movements[pr[2]]
            IN  /\ (SameSection(a, b) /\ Gap(a, b) < SAFETY_BUFFER
                        /\ a.section.capacity < 2)
                       => pr \in Range(conflicts)
                /\ ~SameSection(a, b) => pr \notin Range(conflicts)

\* C3 (as claimed): after detect_conflicts, for every section on which at some
\* instant more movements are active than its capacity, the report holds a
\* conflict between movements of that section.
C3_CapacityConflictRaised ==
    conflicts # NotRun =>
        \A s \in DetectSections :
            Oversubscribed(movements, s) =>
                \E pr \in Range(conflicts) :
                    /\ movements[pr[1]].section.section_id = s.section_id
                    /\ movements[pr[2]].section.section_id = s.section_id

\* C4 (as claimed): after detect_conflicts, of two movements that follow one
\* another (gap >= 0) on the same capacity-1 section, a pair whose gap equals
\* the safety buffer is not reported and a pair whose gap is smaller than the
\* buffer is reported.
C4_BoundaryGap ==
    conflicts # NotRun =>
        \A pr \in PairsOf(movements) :
            LET a == movements[pr[1]]
                b == movements[pr[2]]
            IN  (SameSection(a, b) /\ a.section.capacity = 1 /\ Gap(a, b) >= 0) =>
                    /\ Gap(a, b) = SAFETY_BUFFER => pr \notin Range(conflicts)
                    /\ Gap(a, b) < SAFETY_BUFFER => pr \in Range(conflicts)

(***************************************************************************)
(* Vocabulary of the claims about optimize_schedule.                       *)
(***************************************************************************)
\* Section 7 of the design: the inputs InvalidInputError is for.
InvalidInput(r) ==
    \/ \E k \in 1..Len(r.movements) :
           r.movements[k].entry_time >= r.movements[k].exit_time
    \/ \E k \in 1..Len(r.trains) :
           r.trains[k].speed <= 0 \/ r.trains[k].length <= 0
    \/ \E k \in 1..Len(r.sections) :
           r.sections[k].length <= 0 \/ r.sections[k].max_speed <= 0
    \/ \E k \in 1..(Len(r.sections) - 1) :
           r.sections[k].end_point # r.sections[k + 1].start_point

\* An input no assignment satisfies: optimize_schedule gives every train a
\* variable for every section, and a section of capacity 0 admits no occupant
\* at any instant, however far a train's window is deferred.
Infeasible(r) ==
    /\ Len(r.trains) > 0
    /\ \E k \in 1..Len(r.sections) : r.sections[k].capacity < 1

Completed(c) == conn[c].st = "done" /\ conn[c].req.kind = "optimize"

\* C5 (as claimed): a completed optimize_schedule call on invalid input has
\* raised InvalidInputError, has produced no schedule and has created no solver
\* variable.
C5_InvalidInputRejected ==
    \A c \in Clients :
        (Completed(c) /\ InvalidInput(conn[c].req)) =>
            /\ conn[c].outcome.kind = "raise"
            /\ conn[c].outcome.error = "InvalidInputError"
            /\ \A p \in Procs : solverVars[p] = 0

\* C6 (as claimed): a completed optimize_schedule call on a valid input that no
\* assignment satisfies has raised InfeasibleScheduleError.
C6_InfeasibleReported ==
    \A c \in Clients :
        (Completed(c) /\ Infeasible(conn[c].req) /\ ~InvalidInput(conn[c].req)) =>
            /\ conn[c].outcome.kind = "raise"
            /\ conn[c].outcome.error = "InfeasibleScheduleError"

(***************************************************************************)
(* Claims about the server.                                                *)
(***************************************************************************)
SectionIds(r) == {r.sections[k].section_id : k \in 1..Len(r.sections)}
ActiveRuns == {c \in Clients : conn[c].st = "handling" /\ conn[c].req.kind = "optimize"}

\* C8: no two optimization runs are active at the same time on section sets
\* that share a section.
C8_OverlappingRunsSerialized ==
    \A c1 \in ActiveRuns, c2 \in ActiveRuns :
        c1 # c2 => SectionIds(conn[c1].req) \cap SectionIds(conn[c2].req) = {}

\* C8 witness: a run is active while a second optimize request that shares a
\* section with it has arrived and waits.
C8_Witness ==
    \E c1 \in ActiveRuns, c2 \in Clients :
        /\ conn[c2].st = "sent"
        /\ conn[c2].req.kind = "optimize"
        /\ SectionIds(conn[c1].req) \cap SectionIds(conn[c2].req) # {}

C11_StructuredOutcome ==
    \A c \in Clients :
        conn[c].st = "done" =>
            /\ conn[c].outcome.kind \in {"return", "raise"}
            /\ conn[c].outcome.kind = "return" =>
                   /\ conn[c].resp.status = 200
                   /\ conn[c].resp.body = conn[c].outcome.value
            /\ conn[c].outcome.kind = "raise" =>
                   /\ conn[c].resp.status = 500
                   /\ conn[c].resp.detail = ExcMessage(conn[c].outcome.error)
            /\ \A p \in Procs : proc[p] # c

\* C11 witness: one request has been answered from an exception raised inside
\* optimize_schedule and another with the result of detect_conflicts.
C11_Witness ==
    \E c1 \in Clients, c2 \in Clients :
        /\ Completed(c1)
        /\ conn[c1].outcome.kind = "raise"
        /\ conn[c1].resp.status = 500
        /\ conn[c2].st = "done"
        /\ conn[c2].req.kind = "conflicts"
        /\ conn[c2].resp.status = 200

\* The inputs of scenario B: one section, of capacity 1, three valid trains,
\* and a requested window on the section for each, the windows overlapping
\* pairwise.
ScenarioB(r) ==
    /\ r.kind = "optimize"
    /\ ~InvalidInput(r)
    /\ Len(r.sections) = 1 /\ r.sections[1].capacity = 1
    /\ Len(r.trains) = 3
    /\ Len(r.movements) = 3
    /\ \A k \in 1..3 :
           /\ r.movements[k].train = r.trains[k]
           /\ r.movements[k].section = r.sections[1]
    /\ \A pr \in PairsOf(r.movements) :
           Gap(r.movements[pr[1]], r.movements[pr[2]]) < 0

\* A schedule (a list of movements) in which section s never holds two
\* movements at once and a train of smaller priority ordinal enters no later
\* than a train of larger one.
OneOccupantInPriorityOrder(schedule, s) ==
    /\ \A t \in Times : Cardinality(ActiveAt(schedule, s, t)) <= 1
    /\ \A pr \in (1..Len(schedule)) \X (1..Len(schedule)) :
           LET a == schedule[pr[1]]
               b == schedule[pr[2]]
           IN  (a.section = s /\ b.section = s
                    /\ a.train.priority < b.train.priority)
                   => a.entry_time <= b.entry_time

\* C12 (as claimed): a completed optimize_schedule call on an input of
\* scenario B has returned a schedule in which the section holds at most one
\* movement at every instant and the trains enter it in priority order.
C12_ScenarioB ==
    \A c \in Clients :
        (Completed(c) /\ ScenarioB(conn[c].req)) =>
            /\ conn[c].outcome.kind = "return"
            /\ conn[c].outcome.value # NoneVal
            /\ OneOccupantInPriorityOrder(conn[c].outcome.value,
                                          conn[c].req.sections[1])

\* C13: no detect_conflicts call changes the list it is given or the engine,
\* and a call repeated on the same list, with or without optimize_schedule
\* calls in between, returns the report of the call before.
C13_NoSideEffects ==
    [][/\ movements' = movements
       /\ conflicts # NotRun => conflicts' = conflicts
       /\ detect_conflicts_call(solverVars[1], movements).nvars = solverVars[1]]_vars

\* C13 witness: detect_conflicts has been called on a list of three movements
\* that is not in entry_time order.
C13_Witness ==
    /\ conflicts # NotRun
    /\ Len(movements) = 3
    /\ movements[1].entry_time > movements[2].entry_time

\* p before q in the lexicographic order of position pairs.
LexLess(p, q) == p[1] < q[1] \/ (p[1] = q[1] /\ p[2] < q[2])

\* C14: detect_conflicts on n movements calls _check_conflict on every pair
\* of positions i < j, once each, in lexicographic order, and on nothing else;
\* its report is the examined pairs on which _check_conflict was true, in that
\* order; it has at most n(n-1)/2 entries and none for n <= 1.
C14_PairsExaminedOnce ==
    conflicts # NotRun =>
        LET tr == detect_trace(movements)
            n == Len(movements)
            Hit(pr) == Truthy(check_conflict(movements[pr[1]], movements[pr[2]]))
        IN  /\ Range(tr.examined) = PairsOf(movements)
            /\ \A a \in 1..Len(tr.examined), b \in 1..Len(tr.examined) :
                   a < b => LexLess(tr.examined[a], tr.examined[b])
            /\ conflicts = SelectSeq(tr.examined, Hit)
            /\ 2 * Len(conflicts) <= n * (n - 1)
            /\ n <= 1 => conflicts = <<>>

\* C14 witness: detect_conflicts has run on three movements and examined the
\* three pairs of positions.
C14_Witness ==
    /\ conflicts # NotRun
    /\ Len(movements) = 3
    /\ detect_trace(movements).examined = <<<<1, 2>>, <<1, 3>>, <<2, 3>>>>

(***************************************************************************)
(* The data layer.                                                         *)
(***************************************************************************)
IsPrefix(a, b) == Len(a) <= Len(b) /\ SubSeq(b, 1, Len(a)) = a
CallsOf(log, method) == SelectSeq(log, LAMBDA c : c.method = method)
OtherCollections ==
    {"track_sections", "rolling_stock", "schedules", "maintenance_blocks", "metrics"}

\* C15: whatever the order in which the coroutines are created and run,
\* real_time_data holds one record per completed collect_real_time_data call
\* and weather_data one per completed collect_weather_data call, in the order
\* the calls completed; a step only appends to the two lists, a call appends
\* to its own list only, and the five other collections never change.
C15_OneRecordPerCall ==
    [][LET rt == CallsOf(completed', "collect_real_time_data")
           w == CallsOf(completed', "collect_weather_data")
       IN  /\ Len(collector'.real_time_data) = Len(rt)
           /\ Len(collector'.weather_data) = Len(w)
           /\ \A k \in 1..Len(rt) :
                  /\ collector'.real_time_data[k].train_id = rt[k].arg
                  /\ collector'.real_time_data[k].timestamp = rt[k].at
           /\ \A k \in 1..Len(w) :
                  /\ collector'.weather_data[k].section_id = w[k].arg
                  /\ collector'.weather_data[k].timestamp = w[k].at
           /\ IsPrefix(collector.real_time_data, collector'.real_time_data)
           /\ IsPrefix(collector.weather_data, collector'.weather_data)
           /\ Len(rt) > Len(collector.real_time_data)
                  => collector'.weather_data = collector.weather_data
           /\ Len(w) > Len(collector.weather_data)
                  => collector'.real_time_data = collector.real_time_data
           /\ \A f \in OtherCollections : collector'[f] = collector[f]]_vars

\* C15 witness: two real-time records that differ and one weather record,
\* the coroutine created second having completed first.
C15_Witness ==
    /\ Len(collector.real_time_data) = 2
    /\ Len(collector.weather_data) = 1
    /\ collector.real_time_data[1] # collector.real_time_data[2]
    /\ completed[1].task > completed[2].task

ActiveNow(block, call) ==
    /\ block.section_id = call.section_id
    /\ block.start_time <= call.current_time
    /\ call.current_time <= block.end_time

\* C16: the active_blocks returned is the number of blocks of the section
\* asked for with start_time <= now <= end_time, both ends included, and the
\* affected_duration returned is 0.
C16_ActiveCountZeroDuration ==
    \A c \in 1..Len(impacts) :
        LET call == impacts[c]
            active == {k \in 1..Len(blockList) : ActiveNow(blockList[k], call)}
        IN  /\ call.result.active_blocks = Cardinality(active)
            /\ call.result.affected_duration = 0

\* C16 witness: a call that found two active blocks, one starting now, one
\* ending now, one of them longer than an instant.
C16_Witness ==
    /\ impacts # <<>>
    /\ impacts[1].result.active_blocks = 2
    /\ \E a, b, l \in {k \in 1..Len(blockList) : ActiveNow(blockList[k], impacts[1])} :
           /\ blockList[a].start_time = impacts[1].current_time
           /\ blockList[b].end_time = impacts[1].current_time
           /\ blockList[l].start_time < blockList[l].end_time

====
